---- MODULE Spec2Model ----
(***************************************************************************)
(* Model of crates/hir_ty/src/traits/chalk/mapping.rs: the ToChalk         *)
(* conversions between the analyzer's types/predicates and the solver's    *)
(* IR, the interning of identities they perform, and the helper functions  *)
(* convert_where_clauses and generic_predicate_to_inline_bound.            *)
(*                                                                         *)
(* Every value (hir or chalk) is a record with a tag field k.  A           *)
(* conversion that aborts (panic!, assert!, unimplemented!, expect) yields *)
(* the record Panic(msg).  Outbound conversions thread the database state  *)
(* st = [db, issued, overflow_checks] because interning mutates the        *)
(* database; overflow_checks is the build's handling of integer overflow.  *)
(***************************************************************************)
EXTENDS Naturals, Integers, Sequences, FiniteSets

VARIABLES db, issued, call, input, output, origin, ops, overflow_checks

vars == <<db, issued, call, input, output, origin, ops, overflow_checks>>

(***************************************************************************)
(* Bounds of the model.                                                    *)
(***************************************************************************)
\* nesting depth of the types drawn as inputs
MaxDepth == 2
\* identities (definitions, expressions, type parameters) are 0..MaxIdent
MaxIdent == 1
\* number of conversions performed in one modelled session
MaxOps == 3
\* the largest De Bruijn depth the index type holds (u32::MAX, scaled down)
MaxDebruijn == 7
\* number of threads converting at the same time
MaxThreads == 2

Ids == 0..MaxIdent

RangeOf(s) == {s[i] : i \in 1..Len(s)}

(***************************************************************************)
(* Aborts.                                                                 *)
(***************************************************************************)
Panic(msg) == [k |-> "PANIC", msg |-> msg]

IsPanic(x) == x.k = "PANIC"

\* x, or the abort it is
OrPanic(x, F(_)) == IF IsPanic(x) THEN x ELSE F(x)

\* a sequence of results, or the first abort among them in evaluation order
AllOrPanic(rs, F(_)) ==
    IF \E i \in 1..Len(rs) : IsPanic(rs[i])
    THEN rs[CHOOSE i \in 1..Len(rs) : IsPanic(rs[i]) /\ \A j \in 1..(i - 1) : ~IsPanic(rs[j])]
    ELSE F(rs)

(***************************************************************************)
(* hir types, predicates (crate::Ty, crate::GenericPredicate).             *)
(***************************************************************************)
TyScalar(s) == [k |-> "Scalar", scalar |-> s]
TyStr == [k |-> "Str"]
TyNever == [k |-> "Never"]
TyUnknown == [k |-> "Unknown"]
TyForeignType(id) == [k |-> "ForeignType", type_alias |-> id]
TyPlaceholder(id) == [k |-> "Placeholder", param |-> id]
TyBoundVar(d, i) == [k |-> "BoundVar", debruijn |-> d, index |-> i]
TyInferenceVar(v) == [k |-> "InferenceVar", var |-> v]
TyRef(m, ss) == [k |-> "Ref", mutability |-> m, substs |-> ss]
TyRaw(m, ss) == [k |-> "Raw", mutability |-> m, substs |-> ss]
TyArray(ss) == [k |-> "Array", substs |-> ss]
TySlice(ss) == [k |-> "Slice", substs |-> ss]
TyTuple(c, ss) == [k |-> "Tuple", cardinality |-> c, substs |-> ss]
TyFunction(n, v, ss) == [k |-> "Function", num_args |-> n, variadic |-> v, substs |-> ss]
TyFnDef(c, ss) == [k |-> "FnDef", callable_def |-> c, substs |-> ss]
TyClosure(d, e, ss) == [k |-> "Closure", def |-> d, expr |-> e, substs |-> ss]
TyAdt(a, ss) == [k |-> "Adt", adt_id |-> a, substs |-> ss]
TyAssociatedType(a, ss) == [k |-> "AssociatedType", type_alias |-> a, substs |-> ss]
TyOpaqueType(o, ss) == [k |-> "OpaqueType", opaque_ty_id |-> o, substs |-> ss]
TyAliasProjection(a, ss) == [k |-> "AliasProjection", associated_ty |-> a, parameters |-> ss]
TyAliasOpaque(o, ss) == [k |-> "AliasOpaque", opaque_ty_id |-> o, parameters |-> ss]
TyDyn(ps) == [k |-> "Dyn", predicates |-> ps]

PredImplemented(t, ss) == [k |-> "Implemented", trait_ |-> t, substs |-> ss]
PredProjection(a, ss, ty) == [k |-> "Projection", associated_ty |-> a, parameters |-> ss, ty |-> ty]
PredError == [k |-> "Error"]

\* GenericPredicate::is_error
is_error(p) == p.k = "Error"

(***************************************************************************)
(* chalk_ir values.                                                        *)
(***************************************************************************)
GenericArgTy(t) == [k |-> "GenericArgTy", ty |-> t]
GenericArgLifetime == [k |-> "GenericArgLifetime", lifetime |-> "Static"]
GenericArgConst == [k |-> "GenericArgConst", value |-> "Concrete"]
Substitution(args) == [k |-> "Substitution", args |-> args]

CkScalar(s) == [k |-> "Scalar", scalar |-> s]
CkStr == [k |-> "Str"]
CkNever == [k |-> "Never"]
CkError == [k |-> "Error"]
CkForeign(id) == [k |-> "Foreign", id |-> id]
CkPlaceholder(ui, idx) == [k |-> "Placeholder", ui |-> ui, idx |-> idx]
CkBoundVar(d, i) == [k |-> "BoundVar", debruijn |-> d, index |-> i]
CkInferenceVar(v, kind) == [k |-> "InferenceVar", var |-> v, kind |-> kind]
CkRef(m, l, t) == [k |-> "Ref", mutability |-> m, lifetime |-> l, ty |-> t]
CkRaw(m, t) == [k |-> "Raw", mutability |-> m, ty |-> t]
CkArray(t, c) == [k |-> "Array", ty |-> t, const |-> c]
CkSlice(t) == [k |-> "Slice", ty |-> t]
CkTuple(c, s) == [k |-> "Tuple", cardinality |-> c, substitution |-> s]
CkFunction(nb, v, s) == [k |-> "Function", num_binders |-> nb, variadic |-> v, substitution |-> s]
CkFnDef(id, s) == [k |-> "FnDef", id |-> id, substitution |-> s]
CkClosure(id, s) == [k |-> "Closure", id |-> id, substitution |-> s]
CkAdt(id, s) == [k |-> "Adt", id |-> id, substitution |-> s]
CkAssociatedType(id, s) == [k |-> "AssociatedType", id |-> id, substitution |-> s]
CkOpaqueType(id, s) == [k |-> "OpaqueType", id |-> id, substitution |-> s]
CkAliasProjection(id, s) == [k |-> "AliasProjection", id |-> id, substitution |-> s]
CkAliasOpaque(id, s) == [k |-> "AliasOpaque", id |-> id, substitution |-> s]
CkGenerator(id, s) == [k |-> "Generator", id |-> id, substitution |-> s]
\* DynTy { bounds: Binders<QuantifiedWhereClauses>, lifetime }: binders is the
\* number of variable kinds of the binder, clauses the bound value
CkDyn(nb, cs, l) == [k |-> "Dyn", binders |-> nb, clauses |-> cs, lifetime |-> l]

WcImplemented(t, s) == [k |-> "WcImplemented", trait_id |-> t, substitution |-> s]
WcAliasEq(a, t) == [k |-> "WcAliasEq", alias |-> a, ty |-> t]
WcLifetimeOutlives == [k |-> "WcLifetimeOutlives"]
WcTypeOutlives == [k |-> "WcTypeOutlives"]
\* Binders<T>: the number of bound variables and the bound value
Binders(nb, v) == [k |-> "Binders", binders |-> nb, value |-> v]

\* the fake constant of array_to_chalk
ConcreteUsizeConst == [ty |-> CkScalar("Usize"), value |-> "Concrete"]

(***************************************************************************)
(* De Bruijn shifting (chalk_ir::fold::shift): shifted_in adds adj to      *)
(* every free variable, shifted_out subtracts it and fails (NoSolution)    *)
(* when a variable refers into the removed scopes.  A variable is free     *)
(* when its depth is at least the number of binders entered (outer).       *)
(* Function pointers and Binders<_> each enter one binder.                 *)
(***************************************************************************)
NoSolution == [k |-> "NoSolution"]

IsNoSolution(x) == x.k = "NoSolution"

\* the fold stopped: a failed shift out, or a trapped addition
Stopped(x) == IsNoSolution(x) \/ IsPanic(x)

\* x, or the failure it is
OrNoSolution(x, F(_)) == IF Stopped(x) THEN x ELSE F(x)

\* a sequence of results, or the first failure among them
AllOrNoSolution(xs, F(_)) ==
    IF \E i \in 1..Len(xs) : Stopped(xs[i])
    THEN xs[CHOOSE i \in 1..Len(xs) : Stopped(xs[i]) /\ \A j \in 1..(i - 1) : ~Stopped(xs[j])]
    ELSE F(xs)

\* the direction of a shift; shifting in adds depths, which traps in a build
\* with overflow checks and wraps in one without
In(checks) == [dir |-> "in", checks |-> checks]

Out == [dir |-> "out"]

\* the new depth of a variable of depth d; -1 when shifting out fails, -2 when
\* the addition traps
ShiftDepth(mode, d, adj, outer) ==
    IF d < outer THEN d
    ELSE IF mode.dir = "in"
         THEN IF d + adj <= MaxDebruijn THEN ((d - outer) + adj) + outer
              ELSE IF mode.checks THEN -2
              ELSE (d + adj) % (MaxDebruijn + 1)
    ELSE IF d - outer < adj THEN -1
    ELSE ((d - outer) - adj) + outer

ShiftVar(t, d) ==
    CASE d = -1 -> NoSolution
      [] d = -2 -> Panic("attempt to add with overflow")
      [] OTHER -> CkBoundVar(d, t.index)

RECURSIVE ShiftTy(_, _, _, _)
RECURSIVE ShiftSubst(_, _, _, _)

ShiftArg(mode, a, adj, outer) ==
    IF a.k = "GenericArgTy"
    THEN OrNoSolution(ShiftTy(mode, a.ty, adj, outer), LAMBDA t : GenericArgTy(t))
    ELSE a

ShiftSubst(mode, s, adj, outer) ==
    AllOrNoSolution([i \in 1..Len(s.args) |-> ShiftArg(mode, s.args[i], adj, outer)],
                    LAMBDA mapped : Substitution(mapped))

ShiftAliasEq(mode, wc, adj, outer) ==
    OrNoSolution(ShiftSubst(mode, wc.alias.substitution, adj, outer), LAMBDA s :
        OrNoSolution(ShiftTy(mode, wc.ty, adj, outer), LAMBDA t :
            [wc EXCEPT !.alias.substitution = s, !.ty = t]))

ShiftWhereClause(mode, wc, adj, outer) ==
    CASE wc.k = "WcImplemented" ->
            OrNoSolution(ShiftSubst(mode, wc.substitution, adj, outer),
                         LAMBDA s : [wc EXCEPT !.substitution = s])
      [] wc.k = "WcAliasEq" -> ShiftAliasEq(mode, wc, adj, outer)
      [] OTHER -> wc

\* Binders<WhereClause>: the bound value is folded one binder deeper
ShiftQuantified(mode, q, adj, outer) ==
    OrNoSolution(ShiftWhereClause(mode, q.value, adj, outer + 1),
                 LAMBDA w : [q EXCEPT !.value = w])

ShiftTy(mode, t, adj, outer) ==
    CASE t.k = "BoundVar" -> ShiftVar(t, ShiftDepth(mode, t.debruijn, adj, outer))
      [] t.k \in {"Ref", "Raw", "Array", "Slice"} ->
            OrNoSolution(ShiftTy(mode, t.ty, adj, outer), LAMBDA c : [t EXCEPT !.ty = c])
      [] t.k \in {"Tuple", "FnDef", "Closure", "Adt", "AssociatedType", "OpaqueType",
                  "AliasProjection", "AliasOpaque", "Generator", "Function"} ->
            OrNoSolution(ShiftSubst(mode, t.substitution, adj,
                                    IF t.k = "Function" THEN outer + 1 ELSE outer),
                         LAMBDA s : [t EXCEPT !.substitution = s])
      [] t.k = "Dyn" ->
            AllOrNoSolution([i \in 1..Len(t.clauses) |->
                                ShiftQuantified(mode, t.clauses[i], adj, outer + 1)],
                            LAMBDA mapped : [t EXCEPT !.clauses = mapped])
      [] OTHER -> t

\* x.shifted_in(&Interner), x.shifted_out(&Interner): by one binder, from the top
shifted_in_ty(t, checks) == ShiftTy(In(checks), t, 1, 0)

shifted_in_subst(s, checks) == ShiftSubst(In(checks), s, 1, 0)

shifted_out_subst(s) == ShiftSubst(Out, s, 1, 0)

shifted_out_where_clause(wc) == ShiftWhereClause(Out, wc, 1, 0)

(***************************************************************************)
(* The interning tables of the database (salsa interned queries            *)
(* intern_closure, intern_impl_trait_id, intern_callable_def,              *)
(* intern_type_param_id and their lookup_ counterparts).  A table is the   *)
(* sequence of the keys in order of first use; the handle of a key is its  *)
(* position, counted from 0.                                               *)
(***************************************************************************)
EmptyDb == [closure |-> <<>>, impl_trait |-> <<>>, callable |-> <<>>, type_param |-> <<>>]

NothingIssued == [closure |-> {}, impl_trait |-> {}, callable |-> {}, type_param |-> {}]

Tables == {"closure", "impl_trait", "callable", "type_param"}

HandleOf(t, key) == (CHOOSE i \in 1..Len(t) : t[i] = key) - 1

\* db.intern_X(key): insert-or-fetch
SalsaIntern(st, table, key) ==
    IF key \in RangeOf(st.db[table])
    THEN [id |-> HandleOf(st.db[table], key), st |-> st]
    ELSE [id |-> Len(st.db[table]), st |-> [st EXCEPT !.db[table] = Append(@, key)]]

\* db.lookup_intern_X(handle); salsa aborts on a handle it never gave out
SalsaLookup(dbv, table, h) ==
    IF h < Len(dbv[table]) THEN [k |-> "Key", key |-> dbv[table][h + 1]]
    ELSE Panic("lookup of an id that was never interned")

\* history of the handles the conversions handed out: (identity, handle)
Issue(r, table, key) ==
    [id |-> r.id, st |-> [r.st EXCEPT !.issued[table] = @ \cup {<<key, r.id>>}]]

(***************************************************************************)
(* Outbound conversions (to_chalk).  Each returns [v, st]: the solver      *)
(* value or Panic, and the database state after the call.                  *)
(***************************************************************************)
R(v, st) == [v |-> v, st |-> st]

\* the rest of a handler after a call that may have aborted
Map(r, F(_)) == IF IsPanic(r.v) THEN r ELSE R(F(r.v), r.st)

Bind(r, F(_, _)) == IF IsPanic(r.v) THEN r ELSE F(r.v, r.st)

\* the rest of a handler after an interning call
WithId(c, F(_, _)) == F(c.id, c.st)

\* UniverseIndex::ROOT
ROOT == 0

\* interning the defining context alone
intern_closure_def_only(st, def, expr) ==
    Issue(SalsaIntern(st, "closure", <<def, 0>>), "closure", <<def, expr>>)

\* db.intern_closure((def, expr))
intern_closure(st, def, expr) ==
    Issue(SalsaIntern(st, "closure", <<def, expr>>), "closure", <<def, expr>>)

\* impl ToChalk for OpaqueTyId
OpaqueTyId_to_chalk(st, id) ==
    Issue(SalsaIntern(st, "impl_trait", id), "impl_trait", id)

\* impl ToChalk for CallableDefId
CallableDefId_to_chalk(st, id) ==
    Issue(SalsaIntern(st, "callable", id), "callable", id)

\* an insert that does not look the key up first
intern_type_param_id_append(st, id) ==
    Issue([id |-> Len(st.db["type_param"]),
           st |-> [st EXCEPT !.db["type_param"] = Append(@, id)]], "type_param", id)

\* db.intern_type_param_id(id)
intern_type_param_id(st, id) ==
    Issue(SalsaIntern(st, "type_param", id), "type_param", id)

\* make_binders(value, num_vars): num_vars general type variables
make_binders(value, num_vars) == Binders(num_vars, value)

RECURSIVE Ty_to_chalk(_, _)
RECURSIVE Substs_to_chalk_from(_, _, _, _)
RECURSIVE GenericPredicate_to_chalk(_, _)
RECURSIVE Dyn_where_clauses(_, _, _, _)

\* the elements collected in reverse
Substs_to_chalk_from_prepend(ss, i, acc, st) ==
    IF i > Len(ss) THEN R(Substitution(acc), st)
    ELSE Bind(Ty_to_chalk(ss[i], st), LAMBDA v, st2 :
            Substs_to_chalk_from(ss, i + 1, <<GenericArgTy(v)>> \o acc, st2))

\* impl ToChalk for Substs: every element converted, in order
Substs_to_chalk_from(ss, i, acc, st) ==
    IF i > Len(ss) THEN R(Substitution(acc), st)
    ELSE Bind(Ty_to_chalk(ss[i], st), LAMBDA v, st2 :
            Substs_to_chalk_from(ss, i + 1, Append(acc, GenericArgTy(v)), st2))

Substs_to_chalk(ss, st) == Substs_to_chalk_from(ss, 1, <<>>, st)

\* impl ToChalk for TraitRef
TraitRef_to_chalk(trait_, substs, st) ==
    Map(Substs_to_chalk(substs, st),
        LAMBDA s : [k |-> "TraitRef", trait_id |-> trait_, substitution |-> s])

\* impl ToChalk for ProjectionTy
ProjectionTy_to_chalk(associated_ty, parameters, st) ==
    Map(Substs_to_chalk(parameters, st), LAMBDA s : CkAliasProjection(associated_ty, s))

\* the Implemented arm without shifting the trait reference into the binder
Implemented_to_chalk_unshifted(p, st) ==
    Map(TraitRef_to_chalk(p.trait_, p.substs, st), LAMBDA tr :
        make_binders(WcImplemented(tr.trait_id, tr.substitution), 0))

\* GenericPredicate::Implemented arm of to_chalk
Implemented_to_chalk(p, st) ==
    Map(TraitRef_to_chalk(p.trait_, p.substs, st), LAMBDA tr :
        OrPanic(shifted_in_subst(tr.substitution, st.overflow_checks), LAMBDA s :
            make_binders(WcImplemented(tr.trait_id, s), 0)))

\* GenericPredicate::Projection arm of to_chalk
Projection_to_chalk(p, st) ==
    Bind(Ty_to_chalk(p.ty, st), LAMBDA ty, st2 :
        Map(ProjectionTy_to_chalk(p.associated_ty, p.parameters, st2), LAMBDA projection :
            OrPanic(shifted_in_subst(projection.substitution, st.overflow_checks), LAMBDA s :
                OrPanic(shifted_in_ty(ty, st.overflow_checks), LAMBDA t :
                    make_binders(WcAliasEq([projection EXCEPT !.substitution = s], t), 0)))))

\* to_chalk with an Error arm that emits a clause
GenericPredicate_to_chalk_lenient(p, st) ==
    CASE p.k = "Implemented" -> Implemented_to_chalk(p, st)
      [] p.k = "Projection" -> Projection_to_chalk(p, st)
      [] p.k = "Error" -> R(make_binders(WcImplemented(0, Substitution(<<>>)), 0), st)

\* impl ToChalk for GenericPredicate
GenericPredicate_to_chalk(p, st) ==
    CASE p.k = "Implemented" -> Implemented_to_chalk(p, st)
      [] p.k = "Projection" -> Projection_to_chalk(p, st)
      [] p.k = "Error" -> R(Panic("tried passing GenericPredicate::Error to Chalk"), st)

\* the predicates of a Dyn converted without the is_error filter
Dyn_where_clauses_unfiltered(ps, i, acc, st) ==
    IF i > Len(ps) THEN R([k |-> "Vec", items |-> acc], st)
    ELSE Bind(GenericPredicate_to_chalk(ps[i], st), LAMBDA q, st2 :
            Dyn_where_clauses(ps, i + 1, Append(acc, q), st2))

\* predicates.iter().filter(|p| !p.is_error()).cloned().map(|p| p.to_chalk(db))
Dyn_where_clauses(ps, i, acc, st) ==
    IF i > Len(ps) THEN R([k |-> "Vec", items |-> acc], st)
    ELSE IF is_error(ps[i]) THEN Dyn_where_clauses(ps, i + 1, acc, st)
    ELSE Bind(GenericPredicate_to_chalk(ps[i], st), LAMBDA q, st2 :
            Dyn_where_clauses(ps, i + 1, Append(acc, q), st2))

\* fn ref_to_chalk
ref_to_chalk(st, mutability, subst) ==
    Map(Ty_to_chalk(subst[1], st), LAMBDA arg : CkRef(mutability, "Static", arg))

\* fn array_to_chalk
array_to_chalk(st, subst) ==
    Map(Ty_to_chalk(subst[1], st), LAMBDA arg : CkArray(arg, ConcreteUsizeConst))

\* the Function arm without shifting the substitution into the binder
Function_to_chalk_unshifted(ty, st) ==
    Map(Substs_to_chalk(ty.substs, st), LAMBDA s : CkFunction(0, ty.variadic, s))

\* Ty::Function arm of to_chalk
Function_to_chalk(ty, st) ==
    Map(Substs_to_chalk(ty.substs, st), LAMBDA s :
        OrPanic(shifted_in_subst(s, st.overflow_checks), LAMBDA shifted :
            CkFunction(0, ty.variadic, shifted)))

\* Ty::Closure arm of to_chalk
Closure_to_chalk(ty, st) ==
    WithId(intern_closure(st, ty.def, ty.expr), LAMBDA closure_id, st2 :
        Map(Substs_to_chalk(ty.substs, st2), LAMBDA s : CkClosure(closure_id, s)))

\* Ty::Placeholder arm of to_chalk
Placeholder_to_chalk(ty, st) ==
    WithId(intern_type_param_id(st, ty.param), LAMBDA interned_id, st2 :
        R(CkPlaceholder(ROOT, interned_id), st2))

\* the InferenceVar arm degrading to the error type, as Unknown does
InferenceVar_to_chalk_error(ty, st) == R(CkError, st)

\* Ty::InferenceVar arm of to_chalk
InferenceVar_to_chalk(ty, st) == R(Panic("uncanonicalized infer ty"), st)

\* the bounds of a DynTy
DynBounds(b) == CkDyn(b.binders, b.value, "Static")

\* Ty::Dyn arm of to_chalk
Dyn_to_chalk(ty, st) ==
    Map(Dyn_where_clauses(ty.predicates, 1, <<>>, st),
        LAMBDA where_clauses : DynBounds(make_binders(where_clauses.items, 1)))

\* the arms of to_chalk that convert an identity and a substitution
OpaqueType_to_chalk(ty, st) ==
    WithId(OpaqueTyId_to_chalk(st, ty.opaque_ty_id), LAMBDA id, st2 :
        IF ty.k = "OpaqueType"
        THEN Map(Substs_to_chalk(ty.substs, st2), LAMBDA s : CkOpaqueType(id, s))
        ELSE Map(Substs_to_chalk(ty.parameters, st2), LAMBDA s : CkAliasOpaque(id, s)))

FnDef_to_chalk(ty, st) ==
    WithId(CallableDefId_to_chalk(st, ty.callable_def), LAMBDA id, st2 :
        Map(Substs_to_chalk(ty.substs, st2), LAMBDA s : CkFnDef(id, s)))

\* the arms of to_chalk that convert only a substitution
WithSubstitution(ty, s) ==
    CASE ty.k = "AssociatedType" -> CkAssociatedType(ty.type_alias, s)
      [] ty.k = "Tuple" -> CkTuple(ty.cardinality, s)
      [] ty.k = "Adt" -> CkAdt(ty.adt_id, s)

\* the arms of to_chalk that convert only substs[0]
WithFirst(ty, c) ==
    CASE ty.k = "Raw" -> CkRaw(ty.mutability, c)
      [] ty.k = "Slice" -> CkSlice(c)

\* impl ToChalk for Ty: to_chalk
Ty_to_chalk(ty, st) ==
    CASE ty.k = "Ref" -> ref_to_chalk(st, ty.mutability, ty.substs)
      [] ty.k = "Array" -> array_to_chalk(st, ty.substs)
      [] ty.k = "Function" -> Function_to_chalk(ty, st)
      [] ty.k \in {"AssociatedType", "Tuple", "Adt"} ->
            Map(Substs_to_chalk(ty.substs, st), LAMBDA s : WithSubstitution(ty, s))
      [] ty.k \in {"OpaqueType", "AliasOpaque"} -> OpaqueType_to_chalk(ty, st)
      [] ty.k = "ForeignType" -> R(CkForeign(ty.type_alias), st)
      [] ty.k = "Scalar" -> R(CkScalar(ty.scalar), st)
      [] ty.k \in {"Raw", "Slice"} ->
            Map(Ty_to_chalk(ty.substs[1], st), LAMBDA c : WithFirst(ty, c))
      [] ty.k = "Str" -> R(CkStr, st)
      [] ty.k = "FnDef" -> FnDef_to_chalk(ty, st)
      [] ty.k = "Never" -> R(CkNever, st)
      [] ty.k = "Closure" -> Closure_to_chalk(ty, st)
      [] ty.k = "AliasProjection" ->
            ProjectionTy_to_chalk(ty.associated_ty, ty.parameters, st)
      [] ty.k = "Placeholder" -> Placeholder_to_chalk(ty, st)
      [] ty.k = "BoundVar" -> R(CkBoundVar(ty.debruijn, ty.index), st)
      [] ty.k = "InferenceVar" -> InferenceVar_to_chalk(ty, st)
      [] ty.k = "Dyn" -> Dyn_to_chalk(ty, st)
      [] ty.k = "Unknown" -> R(CkError, st)

(***************************************************************************)
(* Inbound conversions (from_chalk).  They only read the database; cx is   *)
(* [db, overflow_checks]: the tables and whether the build traps integer   *)
(* overflow (debug) or wraps (release).                                    *)
(***************************************************************************)
Substs(tys) == [k |-> "Substs", tys |-> tys]

\* a - b on usize: traps with overflow checks, wraps without (the wrapped value
\* 2^64 + (a - b) is written as the negative number a - b)
usize_sub(a, b, checks) ==
    IF a < b /\ checks THEN Panic("attempt to subtract with overflow")
    ELSE [k |-> "usize", n |-> a - b]

RECURSIVE Ty_from_chalk(_, _)
RECURSIVE Substs_from_chalk(_, _)

GenericArg_from_chalk(p, cx) ==
    IF p.k = "GenericArgTy" THEN Ty_from_chalk(p.ty, cx) ELSE Panic("not implemented")

\* impl ToChalk for Substs: from_chalk
Substs_from_chalk(parameters, cx) ==
    AllOrPanic([i \in 1..Len(parameters.args) |-> GenericArg_from_chalk(parameters.args[i], cx)],
               LAMBDA tys : Substs(tys))

\* Substs::single(from_chalk(db, ty))
Substs_single_from_chalk(ty, cx) == OrPanic(Ty_from_chalk(ty, cx), LAMBDA t : Substs(<<t>>))

\* impl ToChalk for TraitRef: from_chalk
TraitRef_from_chalk(trait_id, substitution, cx) ==
    OrPanic(Substs_from_chalk(substitution, cx), LAMBDA ss : PredImplemented(trait_id, ss.tys))

\* WhereClause::AliasEq arm of GenericPredicate::from_chalk
AliasEq_from_chalk(wc, cx) ==
    IF wc.alias.k # "AliasProjection" THEN Panic("not implemented")
    ELSE OrPanic(Substs_from_chalk(wc.alias.substitution, cx), LAMBDA ss :
            OrPanic(Ty_from_chalk(wc.ty, cx), LAMBDA ty :
                PredProjection(wc.alias.id, ss.tys, ty)))

WhereClause_from_chalk(wc, cx) ==
    CASE wc.k = "NoSolution" -> Panic("unexpected bound vars in where clause")
      [] wc.k = "WcImplemented" -> TraitRef_from_chalk(wc.trait_id, wc.substitution, cx)
      [] wc.k = "WcAliasEq" -> AliasEq_from_chalk(wc, cx)
      [] wc.k = "WcLifetimeOutlives" -> Panic("encountered LifetimeOutlives from Chalk")
      [] wc.k = "WcTypeOutlives" -> Panic("encountered TypeOutlives from Chalk")

\* impl ToChalk for GenericPredicate: from_chalk
GenericPredicate_from_chalk(where_clause, cx) ==
    WhereClause_from_chalk(shifted_out_where_clause(where_clause.value), cx)

\* (substs.len() - 1) and the function pointer built from it
FnPointer_of(n, variadic, tys) == OrPanic(n, LAMBDA m : TyFunction(m.n, variadic, tys))

Function_substs_from_chalk(c, out, cx) ==
    IF IsNoSolution(out) THEN Panic("fn ptr should have no binders")
    ELSE OrPanic(Substs_from_chalk(out, cx), LAMBDA ss :
            FnPointer_of(usize_sub(Len(ss.tys), 1, cx.overflow_checks), c.variadic, ss.tys))

\* the Function arm without the assertion on num_binders
Function_from_chalk_unchecked(c, cx) ==
    Function_substs_from_chalk(c, shifted_out_subst(c.substitution), cx)

\* TyKind::Function arm of from_chalk
Function_from_chalk(c, cx) ==
    IF c.num_binders # 0 THEN Panic("assertion failed: num_binders == 0")
    ELSE Function_substs_from_chalk(c, shifted_out_subst(c.substitution), cx)

\* the Dyn arm without the assertion on the binders
Dyn_from_chalk_unchecked(c, cx) ==
    AllOrPanic([i \in 1..Len(c.clauses) |-> GenericPredicate_from_chalk(c.clauses[i], cx)],
               LAMBDA predicates : TyDyn(predicates))

\* TyKind::Dyn arm of from_chalk
Dyn_from_chalk(c, cx) ==
    IF c.binders # 1 THEN Panic("assertion failed: binders.len() == 1")
    ELSE AllOrPanic([i \in 1..Len(c.clauses) |-> GenericPredicate_from_chalk(c.clauses[i], cx)],
                    LAMBDA predicates : TyDyn(predicates))

\* TyKind::Placeholder arm of from_chalk
Placeholder_from_chalk(c, cx) ==
    IF c.ui # ROOT THEN Panic("assertion failed: idx.ui == ROOT")
    ELSE OrPanic(SalsaLookup(cx.db, "type_param", c.idx), LAMBDA key : TyPlaceholder(key.key))

\* TyKind::Closure arm of from_chalk
Closure_from_chalk(c, cx) ==
    OrPanic(SalsaLookup(cx.db, "closure", c.id), LAMBDA key :
        OrPanic(Substs_from_chalk(c.substitution, cx), LAMBDA ss :
            TyClosure(key.key[1], key.key[2], ss.tys)))

\* the InferenceVar arm refusing the variable, as the outbound direction does
InferenceVar_from_chalk_fatal(c, cx) == Panic("unexpected infer ty")

\* TyKind::InferenceVar arm of from_chalk
InferenceVar_from_chalk(c, cx) == TyUnknown

\* the arms of from_chalk that look an identity up and convert a substitution
Interned_from_chalk(c, table, cx) ==
    OrPanic(SalsaLookup(cx.db, table, c.id), LAMBDA key :
        OrPanic(Substs_from_chalk(c.substitution, cx), LAMBDA ss :
            CASE c.k = "AliasOpaque" -> TyAliasOpaque(key.key, ss.tys)
              [] c.k = "OpaqueType" -> TyOpaqueType(key.key, ss.tys)
              [] c.k = "FnDef" -> TyFnDef(key.key, ss.tys)))

\* the arms of from_chalk that convert only a substitution
OfSubsts(c, tys) ==
    CASE c.k = "AliasProjection" -> TyAliasProjection(c.id, tys)
      [] c.k = "Adt" -> TyAdt(c.id, tys)
      [] c.k = "AssociatedType" -> TyAssociatedType(c.id, tys)
      [] c.k = "Tuple" -> TyTuple(c.cardinality, tys)

\* the arms of from_chalk that convert a single type
OfSingle(c, tys) ==
    CASE c.k = "Array" -> TyArray(tys)
      [] c.k = "Raw" -> TyRaw(c.mutability, tys)
      [] c.k = "Slice" -> TySlice(tys)
      [] c.k = "Ref" -> TyRef(c.mutability, tys)

\* impl ToChalk for Ty: from_chalk
Ty_from_chalk(c, cx) ==
    CASE c.k = "Error" -> TyUnknown
      [] c.k \in {"Array", "Raw", "Slice", "Ref"} ->
            OrPanic(Substs_single_from_chalk(c.ty, cx), LAMBDA ss : OfSingle(c, ss.tys))
      [] c.k = "Placeholder" -> Placeholder_from_chalk(c, cx)
      [] c.k \in {"AliasProjection", "Adt", "AssociatedType", "Tuple"} ->
            OrPanic(Substs_from_chalk(c.substitution, cx), LAMBDA ss : OfSubsts(c, ss.tys))
      [] c.k \in {"AliasOpaque", "OpaqueType"} -> Interned_from_chalk(c, "impl_trait", cx)
      [] c.k = "Function" -> Function_from_chalk(c, cx)
      [] c.k = "BoundVar" -> TyBoundVar(c.debruijn, c.index)
      [] c.k = "InferenceVar" -> InferenceVar_from_chalk(c, cx)
      [] c.k = "Dyn" -> Dyn_from_chalk(c, cx)
      [] c.k = "Scalar" -> TyScalar(c.scalar)
      [] c.k = "Str" -> TyStr
      [] c.k = "Never" -> TyNever
      [] c.k = "FnDef" -> Interned_from_chalk(c, "callable", cx)
      [] c.k = "Closure" -> Closure_from_chalk(c, cx)
      [] c.k = "Foreign" -> TyForeignType(c.id)
      [] c.k \in {"Generator", "GeneratorWitness"} -> Panic("not implemented")

(***************************************************************************)
(* Canonical values, obligations, environments, where clauses, inline      *)
(* bounds.                                                                 *)
(***************************************************************************)
\* chalk_ir::VariableKind
VariableKindTy(tk) == [k |-> "Ty", tk |-> tk]

VariableKindLifetime == [k |-> "Lifetime"]

VariableKindConst == [k |-> "Const"]

CkCanonical(binders, value) == [k |-> "Canonical", binders |-> binders, value |-> value]

\* Canonical { kinds, value }
Canonical(kinds, value) == [k |-> "Canonical", kinds |-> kinds, value |-> value]

\* the closure of Canonical::from_chalk mapping one variable kind
TyVariableKind_from_chalk(vk) ==
    CASE vk.k = "Ty" -> [k |-> "Kind", tk |-> vk.tk]
      [] vk.k = "Lifetime" -> [k |-> "Kind", tk |-> "General"]
      [] vk.k = "Const" -> Panic("unexpected const from Chalk")

\* the kinds with the lifetime variables skipped
Canonical_kinds_skipping(binders) ==
    AllOrPanic([i \in 1..Len(SelectSeq(binders, LAMBDA vk : vk.k # "Lifetime")) |->
                   TyVariableKind_from_chalk(SelectSeq(binders, LAMBDA vk : vk.k # "Lifetime")[i])],
               LAMBDA ks : [k |-> "Kinds", items |-> [i \in 1..Len(ks) |-> ks[i].tk]])

\* canonical.binders.iter().map(..).collect()
Canonical_kinds_from_chalk(binders) ==
    AllOrPanic([i \in 1..Len(binders) |-> TyVariableKind_from_chalk(binders[i])],
               LAMBDA ks : [k |-> "Kinds", items |-> [i \in 1..Len(ks) |-> ks[i].tk]])

\* impl ToChalk for Canonical<T>: from_chalk, with T = Ty
Canonical_from_chalk(canonical, cx) ==
    OrPanic(Canonical_kinds_from_chalk(canonical.binders), LAMBDA kinds :
        OrPanic(Ty_from_chalk(canonical.value, cx), LAMBDA value :
            Canonical(kinds.items, value)))

\* impl ToChalk for ProjectionPredicate: to_chalk
ProjectionPredicate_to_chalk(p, st) ==
    Bind(ProjectionTy_to_chalk(p.associated_ty, p.parameters, st), LAMBDA alias, st2 :
        Map(Ty_to_chalk(p.ty, st2), LAMBDA ty : WcAliasEq(alias, ty)))

DomainGoalHolds(wc) == [k |-> "DomainGoalHolds", wc |-> wc]

\* impl ToChalk for Obligation: to_chalk (o is Trait(tr) or Projection(pr))
Obligation_to_chalk(o, st) ==
    CASE o.k = "Trait" ->
            Map(TraitRef_to_chalk(o.trait_, o.substs, st),
                LAMBDA tr : DomainGoalHolds(WcImplemented(tr.trait_id, tr.substitution)))
      [] o.k = "Projection" ->
            Map(ProjectionPredicate_to_chalk(o, st), LAMBDA pr : DomainGoalHolds(pr))

\* pred.clone().to_chalk(db).cast(&Interner), then into_from_env_clause
FromEnvClause(q) == [k |-> "ProgramClause", from_env |-> TRUE, consequence |-> q]

RECURSIVE TraitEnvironment_clauses_unfiltered(_, _, _, _)
RECURSIVE TraitEnvironment_clauses(_, _, _, _)
\* the loop without the is_error test
TraitEnvironment_clauses_unfiltered(predicates, i, clauses, st) ==
    IF i > Len(predicates) THEN R([k |-> "Vec", items |-> clauses], st)
    ELSE Bind(GenericPredicate_to_chalk(predicates[i], st), LAMBDA q, st2 :
            TraitEnvironment_clauses(predicates, i + 1, Append(clauses, FromEnvClause(q)), st2))

\* the loop of impl ToChalk for Arc<TraitEnvironment>
TraitEnvironment_clauses(predicates, i, clauses, st) ==
    IF i > Len(predicates) THEN R([k |-> "Vec", items |-> clauses], st)
    ELSE IF is_error(predicates[i])
         THEN TraitEnvironment_clauses(predicates, i + 1, clauses, st)
    ELSE Bind(GenericPredicate_to_chalk(predicates[i], st), LAMBDA q, st2 :
            TraitEnvironment_clauses(predicates, i + 1, Append(clauses, FromEnvClause(q)), st2))

\* impl ToChalk for Arc<TraitEnvironment>: to_chalk
TraitEnvironment_to_chalk(predicates, st) ==
    Map(TraitEnvironment_clauses(predicates, 1, <<>>, st),
        LAMBDA clauses : [k |-> "Environment", clauses |-> clauses.items])

(***************************************************************************)
(* Binders<GenericPredicate>::subst: the bound variables of the innermost  *)
(* binder are replaced by the substitution's types.  Dyn enters a binder.  *)
(***************************************************************************)
RECURSIVE HirFold(_, _, _, _)

HirFoldSeq(mode, tys, arg, binders) == [i \in 1..Len(tys) |-> HirFold(mode, tys[i], arg, binders)]

HirFoldPred(mode, p, arg, binders) ==
    CASE p.k = "Implemented" -> [p EXCEPT !.substs = HirFoldSeq(mode, @, arg, binders)]
      [] p.k = "Projection" -> [p EXCEPT !.parameters = HirFoldSeq(mode, @, arg, binders),
                                         !.ty = HirFold(mode, @, arg, binders)]
      [] OTHER -> p

\* mode "shift": shift_bound_vars(arg); mode "subst": subst_bound_vars(arg)
HirFold(mode, ty, arg, binders) ==
    CASE ty.k = "BoundVar" ->
            IF ty.debruijn < binders THEN ty
            ELSE IF mode = "shift" THEN TyBoundVar(ty.debruijn + arg, ty.index)
            ELSE IF ty.index < Len(arg) THEN HirFold("shift", arg[ty.index + 1], binders, 0)
            ELSE ty
      [] ty.k = "Dyn" ->
            [ty EXCEPT !.predicates =
                [i \in 1..Len(@) |-> HirFoldPred(mode, @[i], arg, binders + 1)]]
      [] ty.k \in {"AliasProjection", "AliasOpaque"} ->
            [ty EXCEPT !.parameters = HirFoldSeq(mode, @, arg, binders)]
      [] ty.k \in {"Ref", "Raw", "Array", "Slice", "Tuple", "Function", "FnDef", "Closure",
                   "Adt", "AssociatedType", "OpaqueType"} ->
            [ty EXCEPT !.substs = HirFoldSeq(mode, @, arg, binders)]
      [] OTHER -> ty

\* pred.clone().subst(substs)
Binders_subst(pred, substs) == HirFoldPred("subst", pred, substs, 0)

RECURSIVE convert_where_clauses_loop_unsubstituted(_, _, _, _, _)
RECURSIVE convert_where_clauses_loop(_, _, _, _, _)
\* the loop converting the declared predicates as they are
convert_where_clauses_loop_unsubstituted(generic_predicates, substs, i, result, st) ==
    IF i > Len(generic_predicates) THEN R([k |-> "Vec", items |-> result], st)
    ELSE IF is_error(generic_predicates[i])
         THEN convert_where_clauses_loop(generic_predicates, substs, i + 1, result, st)
    ELSE Bind(GenericPredicate_to_chalk(generic_predicates[i], st), LAMBDA q, st2 :
                 convert_where_clauses_loop(generic_predicates, substs, i + 1,
                                            Append(result, q), st2))

\* the loop of convert_where_clauses
convert_where_clauses_loop(generic_predicates, substs, i, result, st) ==
    IF i > Len(generic_predicates) THEN R([k |-> "Vec", items |-> result], st)
    ELSE IF is_error(generic_predicates[i])
         THEN convert_where_clauses_loop(generic_predicates, substs, i + 1, result, st)
    ELSE Bind(GenericPredicate_to_chalk(Binders_subst(generic_predicates[i], substs), st),
              LAMBDA q, st2 :
                 convert_where_clauses_loop(generic_predicates, substs, i + 1,
                                            Append(result, q), st2))

\* fn convert_where_clauses; generic_predicates is db.generic_predicates(def)
convert_where_clauses(generic_predicates, substs, st) ==
    convert_where_clauses_loop(generic_predicates, substs, 1, <<>>, st)

\* substs[1..].iter().map(|ty| ty.clone().to_chalk(db).cast(&Interner)).collect()
args_no_self(substs, st) == Substs_to_chalk(SubSeq(substs, 2, Len(substs)), st)

None == [k |-> "None"]

Some(b) == [k |-> "Some", bound |-> b]

TraitBound(trait_id, args) == [k |-> "TraitBound", trait_id |-> trait_id, args_no_self |-> args]

AliasEqBound(value, trait_bound, associated_ty_id) ==
    [k |-> "AliasEqBound", value |-> value, trait_bound |-> trait_bound,
     associated_ty_id |-> associated_ty_id, parameters |-> <<>>]

\* the Implemented arm without the test of the self type
Implemented_to_inline_bound_any_self(trait_ref, self_ty, st) ==
    Map(args_no_self(trait_ref.substs, st),
        LAMBDA a : Some(TraitBound(trait_ref.trait_, a.args)))

\* GenericPredicate::Implemented arm of generic_predicate_to_inline_bound
Implemented_to_inline_bound(trait_ref, self_ty, st) ==
    IF trait_ref.substs[1] # self_ty THEN R(None, st)
    ELSE Map(args_no_self(trait_ref.substs, st),
             LAMBDA a : Some(TraitBound(trait_ref.trait_, a.args)))

\* the Projection arm giving up quietly on an associated type outside a trait
Projection_to_inline_bound_lenient(proj, self_ty, container, st) ==
    IF proj.parameters[1] # self_ty THEN R(None, st)
    ELSE IF container.k # "TraitId" THEN R(None, st)
    ELSE Bind(args_no_self(proj.parameters, st), LAMBDA a, st2 :
            Map(Ty_to_chalk(proj.ty, st2), LAMBDA value :
                Some(AliasEqBound(value, TraitBound(container.id, a.args),
                                  proj.associated_ty))))

\* GenericPredicate::Projection arm of generic_predicate_to_inline_bound
Projection_to_inline_bound(proj, self_ty, container, st) ==
    IF proj.parameters[1] # self_ty THEN R(None, st)
    ELSE IF container.k # "TraitId" THEN R(Panic("associated type not in trait"), st)
    ELSE Bind(args_no_self(proj.parameters, st), LAMBDA a, st2 :
            Map(Ty_to_chalk(proj.ty, st2), LAMBDA value :
                Some(AliasEqBound(value, TraitBound(container.id, a.args),
                                  proj.associated_ty))))

\* fn generic_predicate_to_inline_bound; container is the AssocContainerId of
\* the predicate's associated type (read from the database)
generic_predicate_to_inline_bound(pred, self_ty, container, st) ==
    CASE pred.k = "Implemented" -> Implemented_to_inline_bound(pred, self_ty, st)
      [] pred.k = "Projection" -> Projection_to_inline_bound(pred, self_ty, container, st)
      [] pred.k = "Error" -> R(None, st)

(***************************************************************************)
(* The values the handlers are run on.                                     *)
(***************************************************************************)
Mutabilities == {"Not", "Mut"}

Atoms ==
    {TyScalar("Int32"), TyStr, TyNever, TyUnknown, TyInferenceVar(0), TyForeignType(0)}
    \cup {TyPlaceholder(i) : i \in Ids}
    \cup {TyBoundVar(d, 0) : d \in 0..1}

\* the shapes that are nested: one per way a child is reached and per binder
InnerShapes(t) ==
    { TyRef("Not", <<t>>),
      TyTuple(2, <<TyStr, t>>),
      TyFunction(1, FALSE, <<t, TyNever>>),
      TyDyn(<<PredImplemented(0, <<TyBoundVar(0, 0), t>>)>>),
      TyDyn(<<PredError, PredProjection(0, <<TyBoundVar(0, 0)>>, t)>>) }

RECURSIVE Inner(_)
Inner(n) == IF n <= 0 THEN Atoms
            ELSE Atoms \cup UNION {InnerShapes(t) : t \in Inner(n - 1)}

SmallTys == Inner(MaxDepth - 2)

\* every variant of Ty around a child
TopShapes(t) ==
    {TyRef(m, <<t>>) : m \in Mutabilities}
    \cup {TyRaw(m, <<t>>) : m \in Mutabilities}
    \cup {TyArray(<<t>>), TySlice(<<t>>), TyTuple(1, <<t>>),
          TyTuple(2, <<TyStr, t>>), TyTuple(2, <<t, TyStr>>),
          TyFunction(0, FALSE, <<t>>), TyFunction(1, TRUE, <<TyStr, t>>),
          TyFunction(1, FALSE, <<t, TyNever>>),
          TyAdt(0, <<t>>), TyAssociatedType(0, <<t>>), TyAliasProjection(0, <<t>>),
          TyDyn(<<PredImplemented(0, <<TyBoundVar(0, 0), t>>)>>),
          TyDyn(<<PredProjection(0, <<TyBoundVar(0, 0)>>, t)>>),
          TyDyn(<<PredError, PredImplemented(0, <<TyBoundVar(0, 0), t>>)>>),
          TyDyn(<<PredImplemented(1, <<t>>), PredError,
                  PredProjection(0, <<TyBoundVar(0, 0)>>, TyStr)>>)}
    \cup {TyClosure(d, e, <<t>>) : d \in Ids, e \in Ids}
    \cup {TyOpaqueType(o, <<t>>) : o \in Ids}
    \cup {TyAliasOpaque(o, <<t>>) : o \in Ids}
    \cup {TyFnDef(c, <<t>>) : c \in Ids}

TyInputs ==
    Atoms \cup {TyTuple(0, <<>>), TyDyn(<<>>), TyDyn(<<PredError>>)}
    \cup UNION {TopShapes(t) : t \in Inner(MaxDepth - 1)}

\* substitutions: every length up to two, and three distinct elements
SubstsInputs ==
    {<<>>} \cup {<<a>> : a \in SmallTys} \cup {<<a, b>> : a, b \in SmallTys}
    \cup {<<TyStr, a, TyClosure(0, 0, <<>>)>> : a \in SmallTys}

\* predicates: self type first
PredInputs ==
    {PredError}
    \cup {PredImplemented(tr, <<s, a>>) : tr \in Ids,
             s \in {TyStr, TyBoundVar(0, 0), TyInferenceVar(0)}, a \in SmallTys}
    \cup {PredImplemented(0, <<s>>) : s \in SmallTys}
    \cup {PredProjection(0, <<s, a>>, b) : s \in {TyStr, TyBoundVar(0, 0)}, a \in SmallTys,
             b \in {TyStr, TyBoundVar(1, 0), TyInferenceVar(0), TyClosure(0, 1, <<>>)}}

\* a few predicates, for the lists of an environment or a declaration
FewPreds ==
    {PredError,
     PredImplemented(0, <<TyBoundVar(0, 0), TyStr>>),
     PredImplemented(1, <<TyBoundVar(0, 1), TyClosure(0, 1, <<>>)>>),
     PredProjection(0, <<TyBoundVar(0, 0)>>, TyBoundVar(0, 1)),
     PredImplemented(0, <<TyStr, TyInferenceVar(0)>>)}

PredLists ==
    {<<>>} \cup {<<a>> : a \in FewPreds} \cup {<<a, b>> : a, b \in FewPreds}
    \cup {<<a, b, c>> : a, b, c \in FewPreds}

\* values only the solver constructs
SolverAtoms ==
    {CkScalar("Int32"), CkError, CkBoundVar(0, 0), CkBoundVar(1, 0), CkGenerator(0, Substitution(<<>>))}
    \cup {CkInferenceVar(0, kind) : kind \in {"General", "Integer", "Float"}}
    \cup {CkPlaceholder(ui, idx) : ui \in 0..1, idx \in Ids}

SolverSubsts ==
    {Substitution(<<>>)}
    \cup {Substitution(<<GenericArgTy(a)>>) : a \in SolverAtoms}
    \cup {Substitution(<<GenericArgTy(a), GenericArgTy(b)>>) : a \in SolverAtoms, b \in {CkStr, CkBoundVar(1, 0)}}
    \cup {Substitution(<<GenericArgLifetime, GenericArgTy(a)>>) : a \in SolverAtoms}
    \cup {Substitution(<<GenericArgTy(a), GenericArgConst>>) : a \in SolverAtoms}

SolverClauses ==
    {Binders(nb, WcImplemented(0, s)) : nb \in 0..1, s \in SolverSubsts}
    \cup {Binders(0, WcAliasEq(CkAliasProjection(0, Substitution(<<GenericArgTy(a)>>)), a)) : a \in SolverAtoms}
    \cup {Binders(0, WcAliasEq(CkAliasOpaque(0, Substitution(<<>>)), CkStr)),
          Binders(0, WcLifetimeOutlives), Binders(0, WcTypeOutlives)}

SolverTys ==
    SolverAtoms
    \cup {CkFunction(nb, v, s) : nb \in 0..MaxIdent, v \in BOOLEAN, s \in SolverSubsts}
    \cup {CkDyn(nb, <<c>>, "Static") : nb \in 0..(MaxIdent + 1), c \in SolverClauses}
    \cup {CkDyn(nb, <<>>, "Static") : nb \in 0..(MaxIdent + 1)}
    \cup {CkRef(m, l, a) : m \in Mutabilities, l \in {"Static", "Var"}, a \in SolverAtoms}
    \cup {CkArray(a, ConcreteUsizeConst) : a \in SolverAtoms}
    \cup {CkTuple(Len(s.args), s) : s \in SolverSubsts}
    \cup {CkClosure(id, s) : id \in Ids, s \in SolverSubsts}
    \cup {CkFnDef(id, Substitution(<<>>)) : id \in 0..(MaxIdent + 1)}
    \cup {CkOpaqueType(id, Substitution(<<>>)) : id \in 0..(MaxIdent + 1)}

\* AssocContainerId of an associated type
VariableKinds ==
    {VariableKindTy(tk) : tk \in {"General", "Integer", "Float"}}
    \cup {VariableKindLifetime, VariableKindConst}

RECURSIVE KindLists(_)

\* the kind lists of length at most n
KindLists(n) ==
    IF n = 0 THEN {<<>>}
    ELSE KindLists(n - 1) \cup {Append(ks, vk) : ks \in KindLists(n - 1), vk \in VariableKinds}

\* canonical values the solver returns
SolverCanonicals ==
    {CkCanonical(ks, v) : ks \in KindLists(MaxDepth),
                          v \in {CkBoundVar(0, 0), CkTuple(1, Substitution(<<GenericArgTy(CkBoundVar(0, 1))>>)),
                                 CkGenerator(0, Substitution(<<>>))}}

Containers == {[k |-> "TraitId", id |-> 0], [k |-> "TraitId", id |-> 1], [k |-> "ImplId", id |-> 0]}

Req(kind, arg) == [k |-> kind, arg |-> arg]

Requests ==
    {Req("Ty::to_chalk", [ty |-> t]) : t \in TyInputs}
    \cup {Req("Ty::from_chalk", [ty |-> c]) : c \in SolverTys}
    \cup {Req("Substs::to_chalk", [substs |-> ss]) : ss \in SubstsInputs}
    \cup {Req("Substs::from_chalk", [substitution |-> s]) : s \in SolverSubsts}
    \cup {Req("GenericPredicate::to_chalk", [pred |-> p]) : p \in PredInputs}
    \cup {Req("GenericPredicate::from_chalk", [clause |-> q]) : q \in SolverClauses}
    \cup {Req("Obligation::to_chalk", [obligation |-> [p EXCEPT !.k = IF @ = "Implemented" THEN "Trait" ELSE @]]) :
             p \in PredInputs \ {PredError}}
    \cup {Req("TraitEnvironment::to_chalk", [predicates |-> ps]) : ps \in PredLists}
    \cup {Req("convert_where_clauses", [generic_predicates |-> ps, substs |-> ss]) :
             ps \in PredLists, ss \in {<<TyStr, TyNever>>, <<TyPlaceholder(0), TyBoundVar(0, 0)>>}}
    \cup {Req("generic_predicate_to_inline_bound", [pred |-> p, self_ty |-> s, container |-> c]) :
             p \in PredInputs, s \in {TyStr, TyBoundVar(0, 0), TyInferenceVar(0)}, c \in Containers}
    \cup {Req("Canonical::from_chalk", [canonical |-> c]) : c \in SolverCanonicals}

(***************************************************************************)
(* The state machine.  input is the request being served, call whether it  *)
(* is still pending, output its result, origin the hir value an inbound    *)
(* request was produced from (when the solver hands a value back), ops the *)
(* number of requests of the session so far.                               *)
(***************************************************************************)
NoOutput == [k |-> "NoOutput"]

NoOrigin == [k |-> "NoOrigin"]

\* a database in which an earlier query already interned one identity per table
SeededDb == [closure |-> <<<<MaxIdent, 0>>>>, impl_trait |-> <<MaxIdent>>,
             callable |-> <<MaxIdent>>, type_param |-> <<MaxIdent>>]

SeededIssued == [closure |-> {<<<<MaxIdent, 0>>, 0>>}, impl_trait |-> {<<MaxIdent, 0>>},
                 callable |-> {<<MaxIdent, 0>>}, type_param |-> {<<MaxIdent, 0>>}]

Init ==
    /\ input \in Requests
    /\ \E seeded \in BOOLEAN :
          /\ db = IF seeded THEN SeededDb ELSE EmptyDb
          /\ issued = IF seeded THEN SeededIssued ELSE NothingIssued
    /\ call = "pending"
    /\ output = NoOutput
    /\ origin = NoOrigin
    /\ ops = 0
    /\ overflow_checks \in BOOLEAN

St == [db |-> db, issued |-> issued, overflow_checks |-> overflow_checks]

Cx == [db |-> db, overflow_checks |-> overflow_checks]

Pending(kind) == call = "pending" /\ input.k = kind

\* an outbound handler returned r
Outbound(r) ==
    /\ output' = r.v
    /\ db' = r.st.db
    /\ issued' = r.st.issued
    /\ call' = "done"
    /\ UNCHANGED <<input, origin, ops, overflow_checks>>

\* an inbound handler returned v
Inbound(v) ==
    /\ output' = v
    /\ call' = "done"
    /\ UNCHANGED <<db, issued, input, origin, ops, overflow_checks>>

DoTyToChalk ==
    /\ Pending("Ty::to_chalk")
    /\ Outbound(Ty_to_chalk(input.arg.ty, St))

DoTyFromChalk ==
    /\ Pending("Ty::from_chalk")
    /\ Inbound(Ty_from_chalk(input.arg.ty, Cx))

DoSubstsToChalk ==
    /\ Pending("Substs::to_chalk")
    /\ Outbound(Substs_to_chalk(input.arg.substs, St))

DoSubstsFromChalk ==
    /\ Pending("Substs::from_chalk")
    /\ Inbound(Substs_from_chalk(input.arg.substitution, Cx))

DoPredToChalk ==
    /\ Pending("GenericPredicate::to_chalk")
    /\ Outbound(GenericPredicate_to_chalk(input.arg.pred, St))

DoPredFromChalk ==
    /\ Pending("GenericPredicate::from_chalk")
    /\ Inbound(GenericPredicate_from_chalk(input.arg.clause, Cx))

DoObligationToChalk ==
    /\ Pending("Obligation::to_chalk")
    /\ Outbound(Obligation_to_chalk(input.arg.obligation, St))

DoEnvToChalk ==
    /\ Pending("TraitEnvironment::to_chalk")
    /\ Outbound(TraitEnvironment_to_chalk(input.arg.predicates, St))

DoConvertWhereClauses ==
    /\ Pending("convert_where_clauses")
    /\ Outbound(convert_where_clauses(input.arg.generic_predicates, input.arg.substs, St))

DoInlineBound ==
    /\ Pending("generic_predicate_to_inline_bound")
    /\ Outbound(generic_predicate_to_inline_bound(input.arg.pred, input.arg.self_ty,
                                                  input.arg.container, St))

DoCanonicalFromChalk ==
    /\ Pending("Canonical::from_chalk")
    /\ Inbound(Canonical_from_chalk(input.arg.canonical, Cx))

\* the solver hands an outbound result back: it becomes an inbound request
Feed(outKind, inKind, arg(_)) ==
    /\ call = "done"
    /\ input.k = outKind
    /\ ~IsPanic(output)
    /\ input' = Req(inKind, arg(output))
    /\ origin' = input.arg
    /\ output' = NoOutput
    /\ call' = "pending"
    /\ UNCHANGED <<db, issued, ops, overflow_checks>>

FeedTy == Feed("Ty::to_chalk", "Ty::from_chalk", LAMBDA c : [ty |-> c])

FeedSubsts == Feed("Substs::to_chalk", "Substs::from_chalk", LAMBDA c : [substitution |-> c])

FeedPred == Feed("GenericPredicate::to_chalk", "GenericPredicate::from_chalk",
                 LAMBDA c : [clause |-> c])

\* solver types whose variables sit at the far end of the index range
EdgeTys ==
    {CkBoundVar(MaxDebruijn, 0),
     CkRef("Shared", "Static", CkBoundVar(MaxDebruijn - 1, 0)),
     CkFunction(0, FALSE, Substitution(<<GenericArgTy(CkBoundVar(MaxDebruijn, 0))>>)),
     CkFunction(0, FALSE, Substitution(<<GenericArgTy(CkBoundVar(0, 0)),
                                         GenericArgTy(CkBoundVar(MaxDebruijn - 1, 0))>>))}

\* the solver types at hand: an outbound result, or a solver-made one
ShiftSubjects ==
    IF call = "done" THEN {output} ELSE {input.arg.ty} \cup EdgeTys

\* x.shifted_in_from(n) followed by shifted_out_to(n): a solver type is shifted
\* in by n binders and out again
DoShift ==
    /\ \/ call = "done" /\ input.k = "Ty::to_chalk" /\ ~IsPanic(output)
       \/ Pending("Ty::from_chalk") /\ origin = NoOrigin
    /\ \E value \in ShiftSubjects, n \in 0..MaxDepth :
          /\ input' = Req("shift", [value |-> value, n |-> n])
          /\ output' = OrNoSolution(ShiftTy(In(overflow_checks), value, n, 0),
                                    LAMBDA shifted : ShiftTy(Out, shifted, n, 0))
    /\ call' = "done"
    /\ UNCHANGED <<db, issued, origin, ops, overflow_checks>>

Next ==
    \/ DoTyToChalk
    \/ DoTyFromChalk
    \/ DoSubstsToChalk
    \/ DoSubstsFromChalk
    \/ DoPredToChalk
    \/ DoPredFromChalk
    \/ DoObligationToChalk
    \/ DoEnvToChalk
    \/ DoConvertWhereClauses
    \/ DoInlineBound
    \/ DoCanonicalFromChalk
    \/ FeedTy
    \/ FeedSubsts
    \/ FeedPred
    \/ DoShift

Spec == Init /\ [][Next]_vars

(***************************************************************************)
(* A session: one database serving a sequence of conversions of types      *)
(* that carry interned identities.                                         *)
(***************************************************************************)
\* the identities the queries of a session mention
SessionIds == {0, MaxIdent}

SessionTys ==
    {TyClosure(d, e, <<>>) : d \in SessionIds, e \in SessionIds}
    \cup {TyFnDef(c, <<>>) : c \in SessionIds}
    \cup {TyOpaqueType(o, <<>>) : o \in SessionIds}
    \cup {TyPlaceholder(id) : id \in SessionIds}
    \cup {TyTuple(2, <<TyClosure(MaxIdent, 0, <<>>), TyAliasOpaque(0, <<>>)>>)}

\* handles the solver still holds from earlier
SessionSolverTys ==
    {CkClosure(0, Substitution(<<>>)), CkFnDef(0, Substitution(<<>>)), CkPlaceholder(ROOT, 0)}

SessionRequests ==
    {Req("Ty::to_chalk", [ty |-> t]) : t \in SessionTys}
    \cup {Req("Ty::from_chalk", [ty |-> c]) : c \in SessionSolverTys}

SessionInit ==
    /\ input \in SessionRequests
    /\ db = EmptyDb
    /\ issued = NothingIssued
    /\ call = "pending"
    /\ output = NoOutput
    /\ origin = NoOrigin
    /\ ops = 0
    /\ overflow_checks \in BOOLEAN

\* the next query of the session arrives; the database is kept
NewRequest ==
    /\ call = "done"
    /\ ops < MaxOps
    /\ input' \in SessionRequests
    /\ ops' = ops + 1
    /\ call' = "pending"
    /\ output' = NoOutput
    /\ origin' = NoOrigin
    /\ UNCHANGED <<db, issued, overflow_checks>>

SessionNext ==
    \/ NewRequest
    \/ DoTyToChalk
    \/ FeedTy
    \/ DoTyFromChalk

SessionSpec == SessionInit /\ [][SessionNext]_vars

(***************************************************************************)
(* Threads converting at the same time on one database.  An interned       *)
(* query first looks the key up under the shared lock; on a miss it takes  *)
(* the exclusive lock and inserts or fetches.  input, call, output and     *)
(* origin are per thread here; origin[t] tells whether t took the miss     *)
(* path.                                                                   *)
(***************************************************************************)
Threads == 1..MaxThreads

ConcTys ==
    {TyPlaceholder(id) : id \in SessionIds} \cup {TyFnDef(c, <<>>) : c \in SessionIds}

\* the table and key a type of ConcTys interns
ConcTable(ty) == IF ty.k = "Placeholder" THEN "type_param" ELSE "callable"

ConcKey(ty) == IF ty.k = "Placeholder" THEN ty.param ELSE ty.callable_def

ConcInit ==
    /\ input \in [Threads -> {Req("Ty::to_chalk", [ty |-> t]) : t \in ConcTys}]
    /\ db = EmptyDb
    /\ issued = NothingIssued
    /\ call = [t \in Threads |-> "pending"]
    /\ output = [t \in Threads |-> NoOutput]
    /\ origin = [t \in Threads |-> FALSE]
    /\ ops = 0
    /\ overflow_checks \in BOOLEAN

\* thread t finds the key in the table, or misses it
Lookup(t) ==
    /\ call[t] = "pending"
    /\ IF ConcKey(input[t].arg.ty) \in RangeOf(db[ConcTable(input[t].arg.ty)])
       THEN /\ output' = [output EXCEPT ![t] = Ty_to_chalk(input[t].arg.ty, St).v]
            /\ issued' = Ty_to_chalk(input[t].arg.ty, St).st.issued
            /\ call' = [call EXCEPT ![t] = "done"]
            /\ UNCHANGED origin
       ELSE /\ call' = [call EXCEPT ![t] = "miss"]
            /\ origin' = [origin EXCEPT ![t] = TRUE]
            /\ UNCHANGED <<output, issued>>
    /\ UNCHANGED <<db, input, ops, overflow_checks>>

\* thread t, holding the exclusive lock, interns and finishes its conversion
Insert(t) ==
    /\ call[t] = "miss"
    /\ output' = [output EXCEPT ![t] = Ty_to_chalk(input[t].arg.ty, St).v]
    /\ db' = Ty_to_chalk(input[t].arg.ty, St).st.db
    /\ issued' = Ty_to_chalk(input[t].arg.ty, St).st.issued
    /\ call' = [call EXCEPT ![t] = "done"]
    /\ UNCHANGED <<input, origin, ops, overflow_checks>>

ConcNext == \E t \in Threads : Lookup(t) \/ Insert(t)

ConcSpec == ConcInit /\ [][ConcNext]_vars

(***************************************************************************)
(* Properties.                                                             *)
(***************************************************************************)
Done(kind) == call = "done" /\ input.k = kind

\* the handler ran on a value the solver handed back
RoundTrip(kind) == Done(kind) /\ origin # NoOrigin

NonErrors(ps) == SelectSeq(ps, LAMBDA p : ~is_error(p))

RECURSIVE ContainsInfer(_)
RECURSIVE HasDynError(_)

\* the types a type holds in converted positions, and the predicates of a Dyn
Children(ty) ==
    CASE ty.k \in {"Ref", "Raw", "Array", "Slice"} -> {ty.substs[1]}
      [] ty.k \in {"Tuple", "Function", "FnDef", "Closure", "Adt", "AssociatedType",
                   "OpaqueType"} -> RangeOf(ty.substs)
      [] ty.k \in {"AliasProjection", "AliasOpaque"} -> RangeOf(ty.parameters)
      [] OTHER -> {}

PredChildren(p) ==
    CASE p.k = "Implemented" -> RangeOf(p.substs)
      [] p.k = "Projection" -> RangeOf(p.parameters) \cup {p.ty}
      [] OTHER -> {}

DynPreds(ty) == IF ty.k = "Dyn" THEN RangeOf(ty.predicates) ELSE {}

\* an inference variable in a converted position
ContainsInfer(ty) ==
    \/ ty.k = "InferenceVar"
    \/ \E c \in Children(ty) : ContainsInfer(c)
    \/ \E p \in DynPreds(ty) : \E c \in PredChildren(p) : ContainsInfer(c)

PredContainsInfer(p) == \E c \in PredChildren(p) : ContainsInfer(c)

\* an Error predicate in the predicate list of a Dyn, at any depth
HasDynError(ty) ==
    \/ \E p \in DynPreds(ty) : is_error(p) \/ \E c \in PredChildren(p) : HasDynError(c)
    \/ \E c \in Children(ty) : HasDynError(c)

\* C1 as stated: every type that converts outbound comes back structurally
\* equal from the inbound conversion of the result.
C1_RoundTripAll ==
    RoundTrip("Ty::from_chalk") => output = origin.ty

\* C1, amended: every type that converts outbound (no inference variable) and
\* holds no Error predicate in a Dyn predicate list comes back structurally
\* equal: from_chalk(to_chalk(v)) = v.
C1_RoundTrip ==
    (RoundTrip("Ty::from_chalk") /\ ~HasDynError(origin.ty)) => output = origin.ty

C1_Witness ==
    /\ RoundTrip("Ty::from_chalk")
    /\ origin.ty = TyFunction(1, FALSE,
                      <<TyDyn(<<PredImplemented(0, <<TyBoundVar(0, 0), TyBoundVar(1, 0)>>)>>),
                        TyNever>>)
    /\ output = origin.ty

\* C2: Substs::to_chalk keeps the length and converts element i to element i;
\* Substs::from_chalk of a substitution of types does the same inbound.  An
\* abort is the abort of an element's conversion.
C2_SubstsFidelity ==
    /\ (Done("Substs::to_chalk") /\ ~IsPanic(output)) =>
          /\ Len(output.args) = Len(input.arg.substs)
          /\ \A i \in 1..Len(input.arg.substs) :
                output.args[i] = GenericArgTy(Ty_to_chalk(input.arg.substs[i], St).v)
    /\ (Done("Substs::to_chalk") /\ IsPanic(output)) =>
          \E i \in 1..Len(input.arg.substs) : ContainsInfer(input.arg.substs[i])
    /\ (Done("Substs::from_chalk")
           /\ \A i \in 1..Len(input.arg.substitution.args) :
                 input.arg.substitution.args[i].k = "GenericArgTy") =>
          IF IsPanic(output)
          THEN \E i \in 1..Len(input.arg.substitution.args) : \E oc \in BOOLEAN :
                  output = Ty_from_chalk(input.arg.substitution.args[i].ty, Cx)
          ELSE /\ Len(output.tys) = Len(input.arg.substitution.args)
               /\ \A i \in 1..Len(output.tys) : \E oc \in BOOLEAN :
                     output.tys[i] = Ty_from_chalk(input.arg.substitution.args[i].ty, Cx)

C2_Witness ==
    /\ Done("Substs::from_chalk")
    /\ origin # NoOrigin
    /\ Len(origin.substs) = 3
    /\ origin.substs[2] = TyPlaceholder(0)
    /\ output = Substs(origin.substs)

\* C3: an environment of N non-error predicates and M Error predicates converts
\* to exactly N clauses, clause j being the j-th non-error predicate's; the
\* conversion aborts only when a non-error predicate's own conversion aborts.
C3_EnvironmentFiltering ==
    Done("TraitEnvironment::to_chalk") =>
        IF IsPanic(output)
        THEN /\ output.msg # "tried passing GenericPredicate::Error to Chalk"
             /\ \E i \in 1..Len(input.arg.predicates) : PredContainsInfer(input.arg.predicates[i])
        ELSE /\ Len(output.clauses) = Len(NonErrors(input.arg.predicates))
             /\ \A j \in 1..Len(output.clauses) :
                   output.clauses[j] =
                      FromEnvClause(GenericPredicate_to_chalk(NonErrors(input.arg.predicates)[j], St).v)

C3_Witness ==
    /\ Done("TraitEnvironment::to_chalk")
    /\ Len(input.arg.predicates) = 3
    /\ is_error(input.arg.predicates[2])
    /\ ~is_error(input.arg.predicates[1])
    /\ ~is_error(input.arg.predicates[3])
    /\ ~IsPanic(output)
    /\ Len(output.clauses) = 2

\* C4: for an Implemented predicate the inline bound exists exactly when the
\* first substitution element equals the expected self type, and then carries
\* the trait and the remaining arguments; a mismatch or an Error predicate
\* gives None and touches nothing.  An abort is the abort of an argument's
\* conversion.
C4_InlineBoundElision ==
    (Done("generic_predicate_to_inline_bound") /\ input.arg.pred.k # "Projection") =>
        IF input.arg.pred.k = "Implemented" /\ input.arg.pred.substs[1] = input.arg.self_ty
        THEN IF IsPanic(output)
             THEN \E i \in 2..Len(input.arg.pred.substs) : ContainsInfer(input.arg.pred.substs[i])
             ELSE /\ output.k = "Some"
                  /\ output.bound.k = "TraitBound"
                  /\ output.bound.trait_id = input.arg.pred.trait_
                  /\ Len(output.bound.args_no_self) = Len(input.arg.pred.substs) - 1
                  /\ \A i \in 1..Len(output.bound.args_no_self) :
                        output.bound.args_no_self[i] =
                           GenericArgTy(Ty_to_chalk(input.arg.pred.substs[i + 1], St).v)
        ELSE output = None

C4_Witness ==
    /\ Done("generic_predicate_to_inline_bound")
    /\ input.arg.pred.k = "Implemented"
    /\ input.arg.pred.substs[1] = input.arg.self_ty
    /\ Len(input.arg.pred.substs) = 2
    /\ output.k = "Some"
    /\ Len(output.bound.args_no_self) = 1

RECURSIVE BoundVars(_)
RECURSIVE BoundVarsOfSeq(_)

\* the bound variables of a type in traversal order, each seen from outside
\* the binders it sits under
BoundVars(ty) ==
    CASE ty.k = "BoundVar" -> <<ty>>
      [] ty.k \in {"Ref", "Raw", "Array", "Slice"} -> BoundVars(ty.substs[1])
      [] ty.k \in {"Tuple", "Function", "FnDef", "Closure", "Adt", "AssociatedType",
                   "OpaqueType"} -> BoundVarsOfSeq(ty.substs)
      [] ty.k \in {"AliasProjection", "AliasOpaque"} -> BoundVarsOfSeq(ty.parameters)
      [] OTHER -> <<>>

BoundVarsOfSeq(tys) ==
    IF tys = <<>> THEN <<>> ELSE BoundVars(Head(tys)) \o BoundVarsOfSeq(Tail(tys))

PredBoundVars(p) ==
    CASE p.k = "Implemented" -> BoundVarsOfSeq(p.substs)
      [] p.k = "Projection" -> BoundVarsOfSeq(p.parameters) \o BoundVars(p.ty)
      [] OTHER -> <<>>

RECURSIVE FreeDepths(_, _)

FreeDepthsOfSubst(sub, outer) ==
    UNION {IF sub.args[i].k = "GenericArgTy" THEN FreeDepths(sub.args[i].ty, outer) ELSE {}
              : i \in 1..Len(sub.args)}

FreeDepthsOfClause(q, outer) ==
    CASE q.value.k = "WcImplemented" -> FreeDepthsOfSubst(q.value.substitution, outer + 1)
      [] q.value.k = "WcAliasEq" ->
            FreeDepthsOfSubst(q.value.alias.substitution, outer + 1)
               \cup FreeDepths(q.value.ty, outer + 1)
      [] OTHER -> {}

\* the depths of the free variables of a solver type below outer binders, as
\* they are stored
FreeDepths(t, outer) ==
    CASE t.k = "BoundVar" -> IF t.debruijn >= outer THEN {t.debruijn} ELSE {}
      [] t.k \in {"Ref", "Raw", "Array", "Slice"} -> FreeDepths(t.ty, outer)
      [] t.k \in {"Tuple", "FnDef", "Closure", "Adt", "AssociatedType", "OpaqueType",
                  "AliasProjection", "AliasOpaque", "Generator"} ->
            FreeDepthsOfSubst(t.substitution, outer)
      [] t.k = "Function" -> FreeDepthsOfSubst(t.substitution, outer + 1)
      [] t.k = "Dyn" ->
            UNION {FreeDepthsOfClause(t.clauses[i], outer + 1) : i \in 1..Len(t.clauses)}
      [] OTHER -> {}

\* every index shifted by n stays within the index type
InRange(t, n) == \A d \in FreeDepths(t, 0) : d + n <= MaxDebruijn

\* C5 as stated: for every value and every n, shifting in by n and out by n
\* again succeeds and gives the value back.
C5_ShiftInverseAll ==
    Done("shift") => output = input.arg.value

\* C5, amended: shifting a value in by n binders and out by n again succeeds
\* and gives the value back provided every shifted index stays within the
\* index type; a predicate converted outbound and back inbound keeps every
\* bound-variable index.
C5_ShiftInverse ==
    /\ (Done("shift") /\ InRange(input.arg.value, input.arg.n)) =>
          output = input.arg.value
    /\ RoundTrip("GenericPredicate::from_chalk") =>
          /\ ~IsPanic(output)
          /\ PredBoundVars(output) = PredBoundVars(origin.pred)

C5_PredicateWitness ==
    /\ RoundTrip("GenericPredicate::from_chalk")
    /\ origin.pred.k = "Implemented"
    /\ PredBoundVars(origin.pred) = <<TyBoundVar(0, 0), TyBoundVar(1, 0)>>
    /\ output = origin.pred

C5_Witness ==
    /\ Done("shift")
    /\ input.arg.n = MaxDepth
    /\ input.arg.value.k = "Function"
    /\ FreeDepths(input.arg.value, 0) # {}
    /\ InRange(input.arg.value, input.arg.n)
    /\ output = input.arg.value

\* C6: a function pointer produced outbound has num_binders = 0; a function
\* pointer arriving inbound with num_binders > 0 aborts the conversion.
C6_ZeroBinders ==
    /\ (Done("Ty::to_chalk") /\ input.arg.ty.k = "Function" /\ ~IsPanic(output)) =>
          output.k = "Function" /\ output.num_binders = 0
    /\ (Done("Ty::from_chalk") /\ input.arg.ty.k = "Function"
           /\ input.arg.ty.num_binders > 0) =>
          IsPanic(output)

C6_Witness ==
    /\ Done("Ty::from_chalk")
    /\ input.arg.ty.k = "Function"
    /\ input.arg.ty.num_binders = 1
    /\ IsPanic(output)

C6_OutboundWitness ==
    /\ Done("Ty::to_chalk")
    /\ input.arg.ty.k = "Function"
    /\ output.k = "Function"
    /\ output.num_binders = 0

\* C7: Ty::to_chalk of a type holding an inference variable, at the top or
\* nested in a converted position, aborts with "uncanonicalized infer ty" and
\* produces no solver type.
C7_InferenceVarFatal ==
    (Done("Ty::to_chalk") /\ ContainsInfer(input.arg.ty)) =>
        IsPanic(output) /\ output.msg = "uncanonicalized infer ty"

C7_Witness ==
    /\ Done("Ty::to_chalk")
    /\ input.arg.ty.k = "Tuple"
    /\ ContainsInfer(input.arg.ty)
    /\ IsPanic(output)

\* C8: GenericPredicate::to_chalk aborts on Error, gives an Implemented where
\* clause for Implemented and an AliasEq where clause for Projection; the
\* same holds of the goal an obligation turns into.
C8_ErrorPredicateFatal ==
    /\ Done("GenericPredicate::to_chalk") =>
          CASE input.arg.pred.k = "Error" ->
                  /\ IsPanic(output)
                  /\ output.msg = "tried passing GenericPredicate::Error to Chalk"
            [] input.arg.pred.k = "Implemented" ->
                  IF PredContainsInfer(input.arg.pred) THEN IsPanic(output)
                  ELSE output.k = "Binders" /\ output.value.k = "WcImplemented"
            [] input.arg.pred.k = "Projection" ->
                  IF PredContainsInfer(input.arg.pred) THEN IsPanic(output)
                  ELSE output.k = "Binders" /\ output.value.k = "WcAliasEq"
    /\ (RoundTrip("GenericPredicate::from_chalk") /\ ~IsPanic(output)) =>
          output.k = origin.pred.k

C8_Witness ==
    /\ Done("GenericPredicate::to_chalk")
    /\ input.arg.pred.k = "Error"
    /\ IsPanic(output)

C8_ProjectionWitness ==
    /\ Done("GenericPredicate::to_chalk")
    /\ input.arg.pred.k = "Projection"
    /\ output.k = "Binders"
    /\ output.value.k = "WcAliasEq"

\* C9: convert_where_clauses returns one clause per non-error declared
\* predicate, in declaration order, each the conversion of the predicate with
\* the substitution applied.  An abort is the abort of such a conversion.
C9_WhereClauses ==
    Done("convert_where_clauses") =>
        IF IsPanic(output)
        THEN \E i \in 1..Len(input.arg.generic_predicates) :
                PredContainsInfer(Binders_subst(input.arg.generic_predicates[i], input.arg.substs))
        ELSE /\ Len(output.items) = Len(NonErrors(input.arg.generic_predicates))
             /\ \A j \in 1..Len(output.items) :
                   output.items[j] =
                      GenericPredicate_to_chalk(
                         Binders_subst(NonErrors(input.arg.generic_predicates)[j],
                                       input.arg.substs), St).v

C9_Witness ==
    /\ Done("convert_where_clauses")
    /\ Len(input.arg.generic_predicates) = 3
    /\ is_error(input.arg.generic_predicates[1])
    /\ input.arg.generic_predicates[2].k = "Projection"
    /\ input.arg.generic_predicates[3].k = "Implemented"
    /\ PredBoundVars(input.arg.generic_predicates[3]) # <<>>
    /\ ~IsPanic(output)
    /\ Len(output.items) = 2
    /\ output.items[1].value.k = "WcAliasEq"

IsPrefix(a, b) == Len(a) <= Len(b) /\ SubSeq(b, 1, Len(a)) = a

\* every identity handed out is still in its table at the handle it received,
\* the lookup of the handle returns it, and interning it again returns the
\* same handle
HandlesStable ==
    \A table \in Tables : \A pair \in issued[table] :
        /\ SalsaLookup(db, table, pair[2]) = [k |-> "Key", key |-> pair[1]]
        /\ SalsaIntern(St, table, pair[1]).id = pair[2]
        /\ SalsaIntern(St, table, pair[1]).st = St

\* two distinct identities never share a handle, and no identity has two
HandlesInjective ==
    \A table \in Tables : \A p, q \in issued[table] :
        (p[1] = q[1]) <=> (p[2] = q[2])

\* a step removes or moves nothing
AppendOnly ==
    \A table \in Tables : IsPrefix(db[table], db'[table]) /\ issued[table] \subseteq issued'[table]

\* C10: through any sequence of conversions of a session the interning tables
\* only grow; every identity handed out (closure pair, opaque type, callable,
\* type parameter) keeps the handle of its first use, distinct identities have
\* distinct handles, and looking a handle up returns the identity.
C10_InterningStable ==
    /\ [](HandlesStable /\ HandlesInjective)
    /\ [][AppendOnly]_vars

C10_Witness ==
    /\ Done("Ty::from_chalk")
    /\ ops = MaxOps
    /\ Len(db.closure) >= 2
    /\ origin # NoOrigin
    /\ origin.ty.k = "Closure"
    /\ output = origin.ty
    /\ <<origin.ty.def, origin.ty.expr>> = db.closure[1]

NoDuplicates(t) == \A i, j \in 1..Len(t) : t[i] = t[j] => i = j

\* C11: in every interleaving of threads converting at the same time, threads
\* converting the same identity obtain the same handle, threads converting
\* different identities obtain different handles, and no table holds an
\* identity twice.
C11_AtomicInterning ==
    /\ \A table \in Tables : NoDuplicates(db[table])
    /\ \A t, u \in Threads :
          (call[t] = "done" /\ call[u] = "done"
              /\ ConcTable(input[t].arg.ty) = ConcTable(input[u].arg.ty)) =>
             ((input[t] = input[u]) <=> (output[t] = output[u]))
    /\ (\A t \in Threads : call[t] = "done") =>
          \A table \in Tables :
             Len(db[table]) = Cardinality({ConcKey(input[t].arg.ty) :
                                  t \in {u \in Threads : ConcTable(input[u].arg.ty) = table}})

C11_Witness ==
    /\ \A t \in Threads : call[t] = "done" /\ origin[t]
    /\ \A t \in Threads : input[t] = Req("Ty::to_chalk", [ty |-> TyPlaceholder(MaxIdent)])
    /\ \A t \in Threads : output[t] = CkPlaceholder(ROOT, 0)
    /\ db.type_param = <<MaxIdent>>

RECURSIVE WithoutInfer(_)

WithoutInferSubst(sub) ==
    Substitution([i \in 1..Len(sub.args) |->
                     IF sub.args[i].k = "GenericArgTy"
                     THEN GenericArgTy(WithoutInfer(sub.args[i].ty))
                     ELSE sub.args[i]])

WithoutInferClause(q) ==
    CASE q.value.k = "WcImplemented" ->
            [q EXCEPT !.value.substitution = WithoutInferSubst(@)]
      [] q.value.k = "WcAliasEq" ->
            [q EXCEPT !.value.alias.substitution = WithoutInferSubst(@),
                      !.value.ty = WithoutInfer(@)]
      [] OTHER -> q

\* the solver type with the error type in place of every inference variable
WithoutInfer(c) ==
    CASE c.k = "InferenceVar" -> CkError
      [] c.k \in {"Ref", "Raw", "Array", "Slice"} -> [c EXCEPT !.ty = WithoutInfer(@)]
      [] c.k \in {"Tuple", "FnDef", "Closure", "Adt", "AssociatedType", "OpaqueType",
                  "AliasProjection", "AliasOpaque", "Generator", "Function"} ->
            [c EXCEPT !.substitution = WithoutInferSubst(@)]
      [] c.k = "Dyn" ->
            [c EXCEPT !.clauses = [i \in 1..Len(c.clauses) |-> WithoutInferClause(c.clauses[i])]]
      [] OTHER -> c

\* C12: Ty::from_chalk maps a solver inference variable of any kind to
\* Unknown, and a type holding inference variables converts exactly as the
\* same type with the error type (which is Unknown inbound) in their place:
\* the variables cause no abort and become Unknown where they stand.
C12_InferenceVarUnknown ==
    Done("Ty::from_chalk") =>
        /\ input.arg.ty.k = "InferenceVar" => output = TyUnknown
        /\ output = Ty_from_chalk(WithoutInfer(input.arg.ty), Cx)

C12_Witness ==
    /\ Done("Ty::from_chalk")
    /\ input.arg.ty.k = "Tuple"
    /\ Len(input.arg.ty.substitution.args) = 2
    /\ input.arg.ty.substitution.args[1] = GenericArgTy(CkInferenceVar(0, "Integer"))
    /\ output = TyTuple(2, <<TyUnknown, TyStr>>)

\* C13: Canonical::from_chalk of a kind list K aborts when some K[i] is a
\* const kind; otherwise the result has a kind list of the same length whose
\* position i holds K[i]'s type-variable kind, or General where K[i] is a
\* lifetime kind.  Any other abort is that of the value's own conversion.
C13_KindsAligned ==
    Done("Canonical::from_chalk") =>
        IF \E i \in 1..Len(input.arg.canonical.binders) :
              input.arg.canonical.binders[i].k = "Const"
        THEN IsPanic(output) /\ output.msg = "unexpected const from Chalk"
        ELSE IF IsPanic(output)
        THEN output = Ty_from_chalk(input.arg.canonical.value, Cx)
        ELSE /\ output.value = Ty_from_chalk(input.arg.canonical.value, Cx)
             /\ Len(output.kinds) = Len(input.arg.canonical.binders)
             /\ \A i \in 1..Len(output.kinds) :
                   output.kinds[i] =
                      IF input.arg.canonical.binders[i].k = "Ty"
                      THEN input.arg.canonical.binders[i].tk
                      ELSE "General"

C13_Witness ==
    /\ Done("Canonical::from_chalk")
    /\ input.arg.canonical.binders = <<VariableKindLifetime, VariableKindTy("Integer")>>
    /\ input.arg.canonical.value.k = "Tuple"
    /\ output.kinds = <<"General", "Integer">>
    /\ output.value = TyTuple(1, <<TyBoundVar(0, 1)>>)

\* C14: Ty::to_chalk of a Dyn type puts its where clauses under exactly one
\* bound variable; Ty::from_chalk of a solver dyn type whose bounds carry a
\* number of binders other than one aborts.
C14_DynOneBinder ==
    /\ (Done("Ty::to_chalk") /\ input.arg.ty.k = "Dyn" /\ ~IsPanic(output)) =>
          output.k = "Dyn" /\ output.binders = 1
    /\ (Done("Ty::from_chalk") /\ input.arg.ty.k = "Dyn" /\ input.arg.ty.binders # 1) =>
          IsPanic(output)
    /\ (Done("Ty::from_chalk") /\ input.arg.ty.k = "Dyn" /\ ~IsPanic(output)) =>
          output.k = "Dyn" /\ input.arg.ty.binders = 1

C14_Witness ==
    /\ Done("Ty::from_chalk")
    /\ input.arg.ty.k = "Dyn"
    /\ input.arg.ty.binders = 2
    /\ Len(input.arg.ty.clauses) = 1
    /\ input.arg.ty.clauses[1].value.k = "WcImplemented"
    /\ IsPanic(output)

\* C17: Ty::to_chalk of a Dyn type with predicate list P yields the
\* conversions of the non-error predicates of P, in their order; an Error
\* predicate in P causes no abort (an abort is that of a non-error predicate
\* holding an inference variable).
C17_DynDropsErrors ==
    (Done("Ty::to_chalk") /\ input.arg.ty.k = "Dyn") =>
        IF IsPanic(output)
        THEN /\ output.msg # "tried passing GenericPredicate::Error to Chalk"
             /\ \E i \in 1..Len(input.arg.ty.predicates) :
                   PredContainsInfer(input.arg.ty.predicates[i])
        ELSE /\ Len(output.clauses) = Len(NonErrors(input.arg.ty.predicates))
             /\ \A j \in 1..Len(output.clauses) :
                   output.clauses[j] =
                      GenericPredicate_to_chalk(NonErrors(input.arg.ty.predicates)[j], St).v

C17_Witness ==
    /\ Done("Ty::to_chalk")
    /\ input.arg.ty.k = "Dyn"
    /\ Len(input.arg.ty.predicates) >= 2
    /\ is_error(input.arg.ty.predicates[1])
    /\ ~is_error(input.arg.ty.predicates[2])
    /\ ~IsPanic(output)
    /\ Len(output.clauses) = Len(input.arg.ty.predicates) - 1

\* the entries of a function pointer's substitution convert inbound
FnArgsConvertible(c) ==
    /\ ~Stopped(shifted_out_subst(c.substitution))
    /\ ~IsPanic(Substs_from_chalk(shifted_out_subst(c.substitution), Cx))

\* C15 as stated: for every solver function pointer with zero binders (whose
\* entries convert), Ty::from_chalk yields a function pointer whose argument
\* count is the substitution length minus one, a non-negative count reached
\* without arithmetic underflow.
C15_NumArgs ==
    (Done("Ty::from_chalk") /\ input.arg.ty.k = "Function" /\ input.arg.ty.num_binders = 0
        /\ FnArgsConvertible(input.arg.ty)) =>
       /\ ~IsPanic(output)
       /\ output.k = "Function"
       /\ output.num_args = Len(input.arg.ty.substitution.args) - 1
       /\ output.num_args >= 0

\* the same for the function pointers that carry at least a return type
C15_NumArgsNonEmpty ==
    (Done("Ty::from_chalk") /\ input.arg.ty.k = "Function" /\ input.arg.ty.num_binders = 0
        /\ FnArgsConvertible(input.arg.ty) /\ Len(input.arg.ty.substitution.args) >= 1) =>
       /\ ~IsPanic(output)
       /\ output.k = "Function"
       /\ output.num_args = Len(input.arg.ty.substitution.args) - 1
       /\ Len(output.substs) = output.num_args + 1

\* C16: for a Projection predicate the inline bound is None when the first
\* parameter differs from the self type; when it equals it and the associated
\* type is declared in a trait the bound is the alias-equality bound of that
\* trait with parameters[1..] converted in order, the associated type, the
\* conversion of the projected type and no further parameters; when it equals
\* it and the associated type is not declared in a trait the call aborts.  Any
\* other abort is that of a converted type holding an inference variable.
C16_ProjectionInlineBound ==
    (Done("generic_predicate_to_inline_bound") /\ input.arg.pred.k = "Projection") =>
        IF input.arg.pred.parameters[1] # input.arg.self_ty THEN output = None
        ELSE IF input.arg.container.k # "TraitId"
        THEN IsPanic(output) /\ output.msg = "associated type not in trait"
        ELSE IF IsPanic(output)
        THEN \/ ContainsInfer(input.arg.pred.ty)
             \/ \E i \in 2..Len(input.arg.pred.parameters) :
                   ContainsInfer(input.arg.pred.parameters[i])
        ELSE /\ output.k = "Some"
             /\ output.bound.k = "AliasEqBound"
             /\ output.bound.trait_bound.trait_id = input.arg.container.id
             /\ Len(output.bound.trait_bound.args_no_self) = Len(input.arg.pred.parameters) - 1
             /\ \A i \in 1..Len(output.bound.trait_bound.args_no_self) :
                   output.bound.trait_bound.args_no_self[i] =
                      GenericArgTy(Ty_to_chalk(input.arg.pred.parameters[i + 1], St).v)
             /\ output.bound.associated_ty_id = input.arg.pred.associated_ty
             /\ output.bound.value = Ty_to_chalk(input.arg.pred.ty, St).v
             /\ output.bound.parameters = <<>>

C16_Witness ==
    /\ Done("generic_predicate_to_inline_bound")
    /\ input.arg.pred.k = "Projection"
    /\ input.arg.pred.parameters[1] = input.arg.self_ty
    /\ Len(input.arg.pred.parameters) = 2
    /\ input.arg.container.k = "TraitId"
    /\ output.k = "Some"
    /\ output.bound.k = "AliasEqBound"
    /\ Len(output.bound.trait_bound.args_no_self) = 1

====
